---- MODULE Spec2Model ----
(***************************************************************************)
(* Model of scripts/install-oxlint-plugins.mjs: collection of the          *)
(* jsPlugins specifiers named by a matrix command, the allowlist filter,   *)
(* and installPackages with its temporary-directory fallback.              *)
(*                                                                         *)
(* A JavaScript string is a sequence of one-character strings, so that     *)
(* trim, startsWith, includes and the regular expressions are computed on  *)
(* characters as the script computes them.                                 *)
(***************************************************************************)
EXTENDS Integers, Sequences, FiniteSets, TLC

\* ------------------------------------------------------------------ bounds

\* exit statuses of a child process range over 0..MaxStatus
MaxStatus == 2
\* longest package list handed directly to installPackages (SpecInstall)
MaxPkgs == 2
\* longest input collection handed directly to filterInstallable (SpecFilter)
MaxLen == 3
\* longest matrix handed to the matrix runner (SpecRunner)
MaxItems == 3
\* longest jsPlugins array handed directly to readConfigAndCollect (SpecParse)
MaxEntries == 2

\* -------------------------------------------------------------- characters

LowerSeq == <<"a","b","c","d","e","f","g","h","i","j","k","l","m","n","o","p","q","r","s","t","u","v","w","x","y","z">>
UpperSeq == <<"A","B","C","D","E","F","G","H","I","J","K","L","M","N","O","P","Q","R","S","T","U","V","W","X","Y","Z">>
DigitSeq == <<"0","1","2","3","4","5","6","7","8","9">>

Range(s) == {s[i] : i \in 1..Len(s)}

\* \w of a JavaScript regular expression (no u flag): [A-Za-z0-9_]
WordChars == Range(LowerSeq) \cup Range(UpperSeq) \cup Range(DigitSeq) \cup {"_"}
\* the class [\w_-]
WordDash == WordChars \cup {"_", "-"}
\* the class [A-Za-z0-9_-]
AlnumUnderDash == Range(LowerSeq) \cup Range(UpperSeq) \cup Range(DigitSeq) \cup {"_", "-"}
\* \s, and what String.prototype.trim strips
WhiteSpace == {" ", "\t", "\n", "\r"}
Quotes == {"'", "\""}

Max(S) == CHOOSE x \in S : \A y \in S : y <= x
Min(S) == CHOOSE x \in S : \A y \in S : x <= y

\* ----------------------------------------------------------------- strings

\* p occurs in s at index i
StartsAt(s, p, i) ==
  /\ i >= 1
  /\ i + Len(p) - 1 <= Len(s)
  /\ \A k \in 1..Len(p) : s[i + k - 1] = p[k]
StartsWith(s, p) == StartsAt(s, p, 1)
Includes(s, p) ==
  LET str == s
      pat == p
  IN \E i \in 1..(Len(str) + 1) : StartsAt(str, pat, i)

Trim(s) ==
  LET keep == {i \in 1..Len(s) : s[i] \notin WhiteSpace}
  IN IF keep = {} THEN <<>> ELSE SubSeq(s, Min(keep), Max(keep))

UpperChars == Range(UpperSeq)
LowerOf == [c \in UpperChars |-> LowerSeq[CHOOSE i \in 1..Len(UpperSeq) : UpperSeq[i] = c]]
ToLowerChar(c) == IF c \in UpperChars THEN LowerOf[c] ELSE c
ToLower(s) == [i \in 1..Len(s) |-> ToLowerChar(s[i])]

\* last index of the longest run of characters of C that starts at j (j-1: none)
RunEnd(s, j, C) == Max({k \in (j - 1)..Len(s) : \A i \in j..k : s[i] \in C})
\* the same for characters outside C
RunEndNot(s, j, C) == Max({k \in (j - 1)..Len(s) : \A i \in j..k : s[i] \notin C})

\* a JavaScript Set keeps insertion order; add leaves a present value in place
SetAdd(set, x) == IF x \in Range(set) THEN set ELSE Append(set, x)

RECURSIVE SetAddAll(_, _)
SetAddAll(set, xs) ==
  IF xs = <<>> THEN set ELSE SetAddAll(SetAdd(set, Head(xs)), Tail(xs))

RECURSIVE DedupeReversed(_)
\* variant: a deduplication that does not keep the order of first occurrence
DedupeReversed(xs) ==
  IF xs = <<>> THEN <<>>
  ELSE LET rest == DedupeReversed(Tail(xs))
       IN IF Head(xs) \in Range(rest) THEN rest ELSE Append(rest, Head(xs))

\* Array.from(new Set(xs))
Dedupe(xs) == SetAddAll(<<>>, xs)

\* ------------------------------------------------------------------ values

\* values that are not strings (typeof s !== "string")
JsNull == <<"null">>
JsNumber == <<"number">>
JsUndefined == <<"undefined">>
NonStrings == {JsNull, JsNumber, JsUndefined}
IsString(v) == v \notin NonStrings

ESLINT_PLUGIN == <<"e","s","l","i","n","t","-","p","l","u","g","i","n">>
ESLINT_PLUGIN_DASH == <<"e","s","l","i","n","t","-","p","l","u","g","i","n","-">>
OXLINT_PLUGINS == <<"@","o","x","l","i","n","t","/","p","l","u","g","i","n","s">>

\* ------------------------------------------------------- filterInstallable

\* /^eslint-plugin-([\w_-]+)$/
PluginNameRegex(s) ==
  /\ StartsWith(s, ESLINT_PLUGIN_DASH)
  /\ Len(s) > Len(ESLINT_PLUGIN_DASH)
  /\ \A i \in (Len(ESLINT_PLUGIN_DASH) + 1)..Len(s) : s[i] \in WordDash

\* /^@[\w_-]+\/eslint-plugin(-[\w_-]+)?$/
ScopedPluginRegex(s) ==
  /\ Len(s) >= 1 /\ s[1] = "@"
  /\ \E k \in 3..Len(s) :
       /\ s[k] = "/"
       /\ \A i \in 2..(k - 1) : s[i] \in WordDash
       /\ LET rest == SubSeq(s, k + 1, Len(s))
          IN \/ rest = ESLINT_PLUGIN
             \/ /\ StartsWith(rest, ESLINT_PLUGIN_DASH)
                /\ Len(rest) > Len(ESLINT_PLUGIN_DASH)
                /\ \A i \in (Len(ESLINT_PLUGIN_DASH) + 1)..Len(rest) : rest[i] \in WordDash

IsPathSpecifier(s) ==
  StartsWith(s, <<".","/">>) \/ StartsWith(s, <<".",".","/">>) \/ StartsWith(s, <<"/">>)

\* variant: a name that is no path and has no space is let through
InstallablePermissive(s) ==
  IF ~IsString(s) THEN FALSE
  ELSE IF Includes(s, <<" ">>) THEN FALSE
  ELSE IF IsPathSpecifier(s) THEN FALSE
  ELSE TRUE

\* the predicate of unique.filter(...)
Installable(s) ==
  IF ~IsString(s) THEN FALSE
  ELSE IF Includes(s, <<" ">>) THEN FALSE
  ELSE IF IsPathSpecifier(s) THEN FALSE
  ELSE IF PluginNameRegex(s) THEN TRUE
  ELSE IF ScopedPluginRegex(s) THEN TRUE
  ELSE IF s = OXLINT_PLUGINS THEN TRUE
  ELSE FALSE

\* variant: the entries are not trimmed
TrimIfStringIdentity(s) == s

\* (s) => (typeof s === "string" ? s.trim() : s)
TrimIfString(s) == IF IsString(s) THEN Trim(s) ELSE s

filterInstallable(plugins) ==
  LET unique == Dedupe([i \in 1..Len(plugins) |-> TrimIfString(plugins[i])])
  IN SelectSeq(unique, Installable)

\* /^(?:eslint-plugin-[A-Za-z0-9_-]+|@[A-Za-z0-9_-]+\/eslint-plugin(?:-[A-Za-z0-9_-]+)?|@oxlint\/plugins)$/
PACKAGE_REGEX(s) ==
  \/ /\ StartsWith(s, ESLINT_PLUGIN_DASH)
     /\ Len(s) > Len(ESLINT_PLUGIN_DASH)
     /\ \A i \in (Len(ESLINT_PLUGIN_DASH) + 1)..Len(s) : s[i] \in AlnumUnderDash
  \/ /\ Len(s) >= 1 /\ s[1] = "@"
     /\ \E k \in 3..Len(s) :
          /\ s[k] = "/"
          /\ \A i \in 2..(k - 1) : s[i] \in AlnumUnderDash
          /\ LET rest == SubSeq(s, k + 1, Len(s))
             IN \/ rest = ESLINT_PLUGIN
                \/ /\ StartsWith(rest, ESLINT_PLUGIN_DASH)
                   /\ Len(rest) > Len(ESLINT_PLUGIN_DASH)
                   /\ \A i \in (Len(ESLINT_PLUGIN_DASH) + 1)..Len(rest) : rest[i] \in AlnumUnderDash
  \/ s = OXLINT_PLUGINS

\* ------------------------------------------------------------------- paths

RECURSIVE SplitPath(_, _)
\* the segments of p between "/" separators; cur is the segment being read
SplitPath(p, cur) ==
  IF p = <<>> THEN <<cur>>
  ELSE IF Head(p) = "/" THEN <<cur>> \o SplitPath(Tail(p), <<>>)
  ELSE SplitPath(Tail(p), Append(cur, Head(p)))

RECURSIVE NormalizeSegments(_, _)
\* drops "" and ".", and lets ".." remove the segment before it
NormalizeSegments(segs, acc) ==
  IF segs = <<>> THEN acc
  ELSE LET s == Head(segs)
       IN IF s = <<>> \/ s = <<".">> THEN NormalizeSegments(Tail(segs), acc)
          ELSE IF s = <<".",".">>
          THEN NormalizeSegments(Tail(segs),
                 IF acc = <<>> THEN acc ELSE SubSeq(acc, 1, Len(acc) - 1))
          ELSE NormalizeSegments(Tail(segs), Append(acc, s))

RECURSIVE JoinAbsolute(_)
JoinAbsolute(segs) ==
  IF segs = <<>> THEN <<>> ELSE <<"/">> \o Head(segs) \o JoinAbsolute(Tail(segs))

\* path.resolve(base, p) for an absolute base
PathResolve(base, p) ==
  LET full == IF StartsWith(p, <<"/">>) THEN p ELSE base \o <<"/">> \o p
      segs == NormalizeSegments(SplitPath(full, <<>>), <<>>)
  IN IF segs = <<>> THEN <<"/">> ELSE JoinAbsolute(segs)

\* process.cwd(): the repository checkout the script is started in
Cwd == <<"/","r">>

\* ----------------------------------------------------------- configuration

DEFAULT_CONFIG_FILES == << <<".","o","x","l","i","n","t","r","c",".","j","s","o","n">> >>

\* What JSON.parse(strip(raw)) makes of a file; strip and JSON.parse are library
\* code, so a file is given by its parse result.  kind is one of
\*   "missing"  the file does not exist
\*   "invalid"  JSON.parse throws
\*   "null"     the text is null: reading obj.jsPlugins throws a TypeError
\*   "scalar"   a number, string or boolean: obj.jsPlugins is undefined
\*   "array"    a top-level array: obj.jsPlugins is undefined
\*   "object"   an object; hasPlugins says whether jsPlugins is an array
\* An element of jsPlugins is [t, v, specifier, name]: t is its typeof
\* ("string", "object", "null", "number", "boolean", "array"), v the string or
\* the truthiness of a number or boolean, specifier and name the fields of an
\* object (JsUndefined when absent, JsNumber when not a string).
File(kind, hasPlugins, jsPlugins) ==
  [kind |-> kind, hasPlugins |-> hasPlugins, jsPlugins |-> jsPlugins]
MissingFile == File("missing", FALSE, <<>>)
StrEntry(s) == [t |-> "string", v |-> s, specifier |-> JsUndefined, name |-> JsUndefined]
ObjEntry(spec, name) == [t |-> "object", v |-> <<>>, specifier |-> spec, name |-> name]
OtherEntry(t, truthy) ==
  [t |-> t, v |-> IF truthy THEN <<"1">> ELSE <<>>, specifier |-> JsUndefined, name |-> JsUndefined]

\* `!it`: null, 0, false and "" are falsy
Falsy(it) ==
  \/ it.t = "null"
  \/ it.t \in {"number", "boolean", "string"} /\ it.v = <<>>

\* variant: the name field is taken before the specifier field
CollectEntryNameFirst(set, it) ==
  IF Falsy(it) THEN set
  ELSE IF it.t = "string" THEN SetAdd(set, Trim(it.v))
  ELSE IF it.t \in {"object", "array"}
  THEN IF IsString(it.name) THEN SetAdd(set, Trim(it.name))
       ELSE IF IsString(it.specifier) THEN SetAdd(set, Trim(it.specifier))
       ELSE set
  ELSE set

\* the body of `for (const it of arr)`
CollectEntry(set, it) ==
  IF Falsy(it) THEN set
  ELSE IF it.t = "string" THEN SetAdd(set, Trim(it.v))
  ELSE IF it.t \in {"object", "array"}
  THEN IF IsString(it.specifier) THEN SetAdd(set, Trim(it.specifier))
       ELSE IF IsString(it.name) THEN SetAdd(set, Trim(it.name))
       ELSE set
  ELSE set

RECURSIVE CollectEntries(_, _)
CollectEntries(set, arr) ==
  IF arr = <<>> THEN set ELSE CollectEntries(CollectEntry(set, Head(arr)), Tail(arr))

existsSync(fsys, p) == p \in DOMAIN fsys /\ fsys[p].kind # "missing"

\* readConfigAndCollect(configPath, set): the set afterwards
readConfigAndCollect(fsys, configPath, set) ==
  IF ~existsSync(fsys, configPath) THEN set
  ELSE LET obj == fsys[configPath]
       IN IF obj.kind \in {"invalid", "null"} THEN set
          ELSE LET arr == IF obj.kind = "object" /\ obj.hasPlugins THEN obj.jsPlugins ELSE <<>>
               IN CollectEntries(set, arr)

\* variant: the read and the parse are not inside the try block
ReadOutcomeNoTry(fsys, configPath) ==
  IF ~existsSync(fsys, configPath) THEN "return"
  ELSE IF fsys[configPath].kind \in {"invalid", "null"} THEN "throw"
  ELSE "return"

\* How readConfigAndCollect(configPath, set) ends: "return" (the file is
\* missing, or the try block ran through), "warn" (JSON.parse threw, or
\* reading obj.jsPlugins of null did: caught and logged), or "throw" (an
\* exception reaches the caller).
ReadOutcome(fsys, configPath) ==
  IF ~existsSync(fsys, configPath) THEN "return"
  ELSE IF fsys[configPath].kind \in {"invalid", "null"} THEN "warn"
  ELSE "return"

\* an exception leaves one of the readConfigAndCollect calls on these paths
Raises(fsys, paths) == \E i \in 1..Len(paths) : ReadOutcome(fsys, paths[i]) = "throw"

\* the files readConfigAndCollect passes to fs.readFileSync
ReadLog(fsys, configPath, log) ==
  IF existsSync(fsys, configPath) THEN Append(log, configPath) ELSE log

\* ----------------------------------------------------------------- command

\* /\bskip\b/.test(cmd)
SkipRegex(cmd) ==
  \E i \in 1..Len(cmd) :
    /\ StartsAt(cmd, <<"s","k","i","p">>, i)
    /\ i = 1 \/ cmd[i - 1] \notin WordChars
    /\ i + 4 > Len(cmd) \/ cmd[i + 4] \notin WordChars

NoMatch == [ok |-> FALSE, path |-> <<>>, end |-> 0]

\* One attempt of /((?:^|\s)<flag>)\s+(['"])?([^\s'"]+)\2/ at index i.
\* \s+ and [^\s'"]+ are greedy and what follows each cannot start inside its
\* run, so only the longest runs can match; with an opening quote captured,
\* \2 must follow the run, and without it \2 matches the empty string.
MatchAt(cmd, flag, i) ==
  LET fs == IF i = 1 /\ StartsAt(cmd, flag, 1) THEN 1
            ELSE IF i <= Len(cmd) /\ cmd[i] \in WhiteSpace /\ StartsAt(cmd, flag, i + 1)
            THEN i + 1 ELSE 0
  IN IF fs = 0 THEN NoMatch
     ELSE LET a == fs + Len(flag)
              w == RunEnd(cmd, a, WhiteSpace)
              j == w + 1
          IN IF w < a THEN NoMatch
             ELSE IF j <= Len(cmd) /\ cmd[j] \in Quotes
             THEN LET k == RunEndNot(cmd, j + 1, WhiteSpace \cup Quotes)
                  IN IF k >= j + 1 /\ k + 1 <= Len(cmd) /\ cmd[k + 1] = cmd[j]
                     THEN [ok |-> TRUE, path |-> SubSeq(cmd, j + 1, k), end |-> k + 1]
                     ELSE NoMatch
             ELSE LET k == RunEndNot(cmd, j, WhiteSpace \cup Quotes)
                  IN IF k >= j
                     THEN [ok |-> TRUE, path |-> SubSeq(cmd, j, k), end |-> k]
                     ELSE NoMatch

RECURSIVE ExecAll(_, _, _)
\* the m[3] of the successive re.exec(cmd) of a /g expression, from index `from`
ExecAll(cmd, flag, from) ==
  LET starts == {i \in from..Len(cmd) : MatchAt(cmd, flag, i).ok}
  IN IF starts = {} THEN <<>>
     ELSE LET m == MatchAt(cmd, flag, Min(starts))
          IN <<m.path>> \o ExecAll(cmd, flag, m.end + 1)

\* the paths collectFromCommand resolves, in the order it reads them
ConfigPaths(cmd) ==
  LET raw == ExecAll(cmd, <<"-","c">>, 1) \o ExecAll(cmd, <<"-","-","c","o","n","f","i","g">>, 1)
  IN [i \in 1..Len(raw) |-> PathResolve(Cwd, raw[i])]

RECURSIVE ReadAll(_, _, _)
ReadAll(fsys, paths, set) ==
  IF paths = <<>> THEN set
  ELSE ReadAll(fsys, Tail(paths), readConfigAndCollect(fsys, Head(paths), set))

RECURSIVE ReadLogAll(_, _, _)
ReadLogAll(fsys, paths, log) ==
  IF paths = <<>> THEN log
  ELSE ReadLogAll(fsys, Tail(paths), ReadLog(fsys, Head(paths), log))

\* collectFromCommand(cmd, set): the paths it hands to readConfigAndCollect
CommandPaths(cmd) ==
  IF cmd = <<>> THEN <<>>
  ELSE IF SkipRegex(cmd) THEN <<>>
  ELSE ConfigPaths(cmd)

\* variant: the default file is read whatever the flags gave
DefaultPathsAlways(fsys, set) ==
  LET found == {i \in 1..Len(DEFAULT_CONFIG_FILES) :
                  existsSync(fsys, PathResolve(Cwd, DEFAULT_CONFIG_FILES[i]))}
  IN IF found = {} THEN <<>>
     ELSE <<PathResolve(Cwd, DEFAULT_CONFIG_FILES[Min(found)])>>

\* collectDefaultIfEmpty(set): the paths it hands to readConfigAndCollect
DefaultPaths(fsys, set) ==
  IF Len(set) > 0 THEN <<>>
  ELSE LET found == {i \in 1..Len(DEFAULT_CONFIG_FILES) :
                       existsSync(fsys, PathResolve(Cwd, DEFAULT_CONFIG_FILES[i]))}
       IN IF found = {} THEN <<>>
          ELSE <<PathResolve(Cwd, DEFAULT_CONFIG_FILES[Min(found)])>>

\* variant: only ./ counts as a local plugin
LocalPluginRefDotOnly(s) == IsString(s) /\ StartsWith(s, <<".","/">>)

\* collectFromLocalPlugins(rawSet, installSet) with installSet = rawSet
LocalPluginRef(s) == IsString(s) /\ (StartsWith(s, <<".","/">>) \/ StartsWith(s, <<".",".","/">>))
collectFromLocalPlugins(set) ==
  IF \E i \in 1..Len(set) : LocalPluginRef(set[i])
  THEN SetAdd(set, OXLINT_PLUGINS)
  ELSE set

\* ------------------------------------------------------------- environment

EslintPluginFoo == <<"e","s","l","i","n","t","-","p","l","u","g","i","n","-","f","o","o">>
ScopedPlugin == <<"@","s","/","e","s","l","i","n","t","-","p","l","u","g","i","n">>
ScopedPluginX == <<"@","s","/","e","s","l","i","n","t","-","p","l","u","g","i","n","-","x">>
Lodash == <<"l","o","d","a","s","h">>
Eslint == <<"e","s","l","i","n","t">>
TsParser == <<"@","t","y","p","e","s","c","r","i","p","t","-","e","s","l","i","n","t","/","p","a","r","s","e","r">>
Oxlint == <<"o","x","l","i","n","t">>

DefaultConfigPath == <<"/","r","/",".","o","x","l","i","n","t","r","c",".","j","s","o","n">>
CustomConfigPath == <<"/","r","/","c","o","n","f","i","g","s","/","c","u","s","t","o","m",".","j","s","o","n">>
SpacedConfigPath == <<"/","r","/","m","y"," ","c","o","n","f","i","g",".","j","s","o","n">>
FilePaths == {DefaultConfigPath, CustomConfigPath, SpacedConfigPath}

\* {"jsPlugins": ["eslint-plugin-foo", "./local/myplugin"]}
CfgLocal == File("object", TRUE, <<StrEntry(EslintPluginFoo), StrEntry(<<".","/","l","o","c","a","l","/","m","y","p","l","u","g","i","n">>)>>)
\* {"jsPlugins": ["/abs/plugin.js", {"specifier": "@s/eslint-plugin"}]}
CfgAbsolute == File("object", TRUE, <<StrEntry(<<"/","a","b","s","/","p","l","u","g","i","n",".","j","s">>), ObjEntry(ScopedPlugin, JsUndefined)>>)
\* {"jsPlugins": [{"specifier": " @s/eslint-plugin-x ", "name": "lodash"}, {"name": "eslint-plugin-foo"},
\*                null, 7, "lodash", " eslint-plugin-foo", {"specifier": 1}, "eslint-plugin-foo bar"]}
CfgMixed ==
  File("object", TRUE,
       <<ObjEntry(<<" ","@","s","/","e","s","l","i","n","t","-","p","l","u","g","i","n","-","x"," ">>, Lodash), ObjEntry(JsUndefined, EslintPluginFoo),
         OtherEntry("null", FALSE), OtherEntry("number", TRUE), StrEntry(Lodash),
         StrEntry(<<" ","e","s","l","i","n","t","-","p","l","u","g","i","n","-","f","o","o">>), ObjEntry(JsNumber, JsUndefined),
         StrEntry(<<"e","s","l","i","n","t","-","p","l","u","g","i","n","-","f","o","o"," ","b","a","r">>)>>)
\* {"jsPlugins": ["../up/plugin.js"]}
CfgParent == File("object", TRUE, <<StrEntry(<<".",".","/","u","p","/","p","l","u","g","i","n",".","j","s">>)>>)
\* {"rules": {}}
CfgNoPlugins == File("object", FALSE, <<>>)
CfgInvalid == File("invalid", FALSE, <<>>)
CfgNull == File("null", FALSE, <<>>)
\* 7
CfgNumber == File("scalar", FALSE, <<>>)
\* ["eslint-plugin-foo"]
CfgArray == File("array", FALSE, <<>>)

DefaultContents == {MissingFile, CfgLocal, CfgAbsolute, CfgInvalid, CfgNumber, CfgArray}
CustomContents == {MissingFile, CfgLocal, CfgMixed, CfgParent, CfgNoPlugins, CfgNull}

FileSystem(d, c) ==
  [p \in FilePaths |-> IF p = DefaultConfigPath THEN d
                       ELSE IF p = CustomConfigPath THEN c ELSE MissingFile]
\* a checkout whose only configuration file is "my config.json"
SpacedFileSystem ==
  [p \in FilePaths |-> IF p = SpacedConfigPath THEN CfgParent ELSE MissingFile]
\* checkouts: any default file and no custom one, or any custom file beside no
\* default file or the default file CfgLocal, or only "my config.json"
FileSystems ==
  {FileSystem(d, MissingFile) : d \in DefaultContents}
  \cup {FileSystem(d, c) : d \in {MissingFile, CfgLocal}, c \in CustomContents}
  \cup {SpacedFileSystem}

\* values of MATRIX_COMMAND
Commands ==
  { <<>>,
    <<"o","x","l","i","n","t">>,
    <<"e","c","h","o"," ","\"","s","k","i","p","\"">>,
    <<"o","x","l","i","n","t"," ","-","c"," ",".","/","c","o","n","f","i","g","s","/","c","u","s","t","o","m",".","j","s","o","n">>,
    <<"o","x","l","i","n","t"," ","-","c"," ","c","o","n","f","i","g","s","/","c","u","s","t","o","m",".","j","s","o","n"," ","#"," ","s","k","i","p">>,
    <<"o","x","l","i","n","t"," ","-","-","c","o","n","f","i","g"," ","\"","m","y"," ","c","o","n","f","i","g",".","j","s","o","n","\"">>,
    <<"o","x","l","i","n","t"," ","-","-","c","o","n","f","i","g"," ","'","c","o","n","f","i","g","s","/","c","u","s","t","o","m",".","j","s","o","n","'"," ","-","c"," ",".","o","x","l","i","n","t","r","c",".","j","s","o","n">> }

\* Files under node_modules, as <<package, file>>; the content of a file is
\* named by who wrote it: "repo" (there before the script ran), "npm" (the
\* primary install), "tmp" (installed in the temporary directory), "built"
\* (the copied oxlint artifact), or "absent".
NmPathSeq ==
  << <<EslintPluginFoo, "package.json">>, <<EslintPluginFoo, "index.js">>,
     <<Eslint, "package.json">>, <<Oxlint, "package.json">> >>
NmPaths == Range(NmPathSeq)
NmIndex(p) == CHOOSE i \in 1..Len(NmPathSeq) : NmPathSeq[i] = p

NmEmpty == [p \in NmPaths |-> "absent"]
NmRepo == [p \in NmPaths |-> IF p[2] = "package.json" THEN "repo" ELSE "absent"]
InitialNodeModules == {NmEmpty, NmRepo}

\* ----------------------------------------------------------- child process

\* spawnSync's result: error (launch failure), status (<<>> is null, <<n>> an
\* exit code), stdout and stderr (JsNull when nothing was captured)
NoErr == [code |-> "", message |-> <<>>]
SpawnResult(error, status, stdout, stderr) ==
  [error |-> error, status |-> status, stdout |-> stdout, stderr |-> stderr]

LaunchErrors ==
  { [code |-> "ENOENT", message |-> <<"s","p","a","w","n","S","y","n","c"," ","n","p","m"," ","E","N","O","E","N","T">>],
    [code |-> "EUNSUPPORTEDPROTOCOL", message |-> <<"u","n","s","u","p","p","o","r","t","e","d"," ","p","r","o","t","o","c","o","l">>],
    [code |-> "ERR", message |-> <<"c","a","n","n","o","t"," ","h","a","n","d","l","e"," ","w","o","r","k","s","p","a","c","e",":","*"," ","h","e","r","e">>] }

\* <<stdout, stderr>> of an npm install that ran
Outputs ==
  { << <<>>, <<>> >>,
    << <<"a","d","d","e","d"," ","3"," ","p","a","c","k","a","g","e","s">>, <<>> >>,
    << <<>>, <<"n","p","m"," ","E","R","R","!"," ","4","0","4"," ","N","o","t"," ","F","o","u","n","d">> >>,
    << <<>>, <<"n","p","m"," ","E","R","R","!"," ","U","n","s","u","p","p","o","r","t","e","d"," ","U","R","L"," ","T","y","p","e"," ","\"","w","o","r","k","s","p","a","c","e","\"">> >>,
    << <<>>, <<"n","p","m"," ","e","r","r","o","r"," ","u","n","s","u","p","p","o","r","t","e","d"," ","u","r","l"," ","t","y","p","e"," ","\"","W","O","R","K","S","P","A","C","E","\"">> >>,
    << <<>>, <<"n","p","m"," ","E","R","R","!"," ","d","e","p"," ","w","o","r","k","s","p","a","c","e",":","*">> >>,
    << <<>>, <<"n","p","m"," ","E","R","R","!"," ","c","o","d","e"," ","E","U","N","S","U","P","P","O","R","T","E","D","P","R","O","T","O","C","O","L">> >>,
    << <<"r","e","s","o","l","v","i","n","g"," ","w","o","r","k","s","p","a","c","e",":","^","1">>, <<"n","p","m"," ","E","R","R","!"," ","4","0","4"," ","N","o","t"," ","F","o","u","n","d">> >> }

ExitStatuses == {<<n>> : n \in 0..MaxStatus}

\* what spawnSync('npm', ['install', ...], {stdio: 'pipe'}) can return
PrimaryResults ==
  {SpawnResult(e, <<>>, JsNull, JsNull) : e \in LaunchErrors}
  \cup {SpawnResult(NoErr, st, o[1], o[2]) : st \in ExitStatuses, o \in Outputs}

\* what spawnSync('npm', ['install', ...], {stdio: 'inherit'}) can return
InheritResults ==
  {SpawnResult(e, <<>>, JsNull, JsNull) : e \in {x \in LaunchErrors : x.code = "ENOENT"}}
  \cup {SpawnResult(NoErr, st, JsNull, JsNull) : st \in ExitStatuses}

\* What spawnSync('npm', ['view', p, 'peerDependencies', '--json']) can return:
\* status, and what JSON.parse makes of the trimmed stdout: out is "none" (no
\* stdout), "empty", "null", "garbage" (JSON.parse throws), "scalar", or
\* "object" with its keys in Object.keys order.
ViewResult(status, out, keys) == [status |-> status, out |-> out, keys |-> keys]
PeerKeys == { <<Eslint>>, << <<>>, EslintPluginFoo, TsParser >> }
ViewResults ==
  { ViewResult(<<>>, "none", <<>>), ViewResult(<<1>>, "empty", <<>>),
    ViewResult(<<0>>, "empty", <<>>), ViewResult(<<0>>, "null", <<>>),
    ViewResult(<<0>>, "garbage", <<>>), ViewResult(<<0>>, "scalar", <<>>) }
  \cup {ViewResult(<<0>>, "object", k) : k \in PeerKeys}

\* no query has been made, or r is out of scope
NoView == ViewResult(<<>>, "unset", <<>>)

Spawn(file, args, options) == [file |-> file, args |-> args, options |-> options]

\* the directory fs.mkdtempSync(path.join(os.tmpdir(), 'install-oxlint-')) makes
TmpDirPath == <<"/","t","m","p","/","i","n","s","t","a","l","l","-","o","x","l","i","n","t","-","X","X","X","X","X","X">>

\* ------------------------------------------------------------------- state

VARIABLES
  cmd,             \* process.env.MATRIX_COMMAND || ""
  files,           \* configuration files of the checkout, by absolute path
  nodeModules,     \* <cwd>/node_modules
  pc,              \* where the script is
  set,             \* main's Set of collected specifiers
  reads,           \* files read with fs.readFileSync, in order
  pkgs,            \* the list given to installPackages
  spawns,          \* child processes started, in order
  trace,           \* steps of the script taken, in order
  res,             \* result of the primary install
  tmpDir,          \* "none", "exists" or "removed"
  peerIdx,         \* index in pkgs of the next peerDependencies query
  peerSet,         \* collectPeerDepsSync's peerSet
  viewRes,         \* collectPeerDepsSync's r: the result of the last query
  installList,     \* packages of the fallback install
  tmpRes,          \* result of the fallback install
  tmpNodeModules,  \* <tmpDir>/node_modules: [exists, tree]
  error,           \* the error installPackages threw, if any
  exitCode,        \* <<>> while running, <<n>> once the process ended
  tool,            \* bin/test.js: "oxlint" or "oxfmt"
  matrix,          \* bin/test.js: the entries of the matrix file
  item,            \* bin/test.js: index in matrix of the entry being processed
  rpc,             \* bin/test.js: where the runner is
  log              \* bin/test.js: the steps the runner took, in order

\* the state of install-oxlint-plugins.mjs
mainVars ==
  <<cmd, files, nodeModules, pc, set, reads, pkgs, spawns, trace, res, tmpDir,
    peerIdx, peerSet, viewRes, installList, tmpRes, tmpNodeModules, error, exitCode>>
\* the state of bin/test.js
runner == <<tool, matrix, item, rpc, log>>

vars == <<mainVars, runner>>

\* no matrix runner is part of the run
RunnerIdle ==
  /\ tool = "oxlint"
  /\ matrix = <<>>
  /\ item = 1
  /\ rpc = "idle"
  /\ log = <<>>

NoResult == SpawnResult(NoErr, <<>>, JsNull, JsNull)
NoTree == [exists |-> FALSE, tree |-> NmEmpty]

Err(kind, status, names, code) ==
  [kind |-> kind, status |-> status, names |-> names, code |-> code]
NoError == Err("none", <<>>, <<>>, "")

InstallVarsInit ==
  /\ spawns = <<>>
  /\ trace = <<>>
  /\ res = NoResult
  /\ tmpDir = "none"
  /\ peerIdx = 1
  /\ peerSet = <<>>
  /\ viewRes = NoView
  /\ installList = <<>>
  /\ tmpRes = NoResult
  /\ tmpNodeModules = NoTree
  /\ error = NoError
  /\ exitCode = <<>>

\* the script is started in a checkout with some configuration files
Init ==
  /\ cmd \in Commands
  /\ files \in FileSystems
  /\ nodeModules \in InitialNodeModules
  /\ pc = "main"
  /\ set = <<>>
  /\ reads = <<>>
  /\ pkgs = <<>>
  /\ InstallVarsInit
  /\ RunnerIdle

\* ------------------------------------------------------------ main: collect

\* collectFromCommand(cmd, set); an exception out of readConfigAndCollect would
\* be uncaught in main and end the process
CollectFromCommand ==
  /\ pc = "main"
  /\ set' = ReadAll(files, CommandPaths(cmd), set)
  /\ reads' = ReadLogAll(files, CommandPaths(cmd), reads)
  /\ IF Raises(files, CommandPaths(cmd))
     THEN pc' = "crashed" /\ exitCode' = <<1>>
     ELSE pc' = "collectDefault" /\ exitCode' = exitCode
  /\ UNCHANGED <<runner, viewRes, cmd, files, nodeModules, pkgs, spawns, trace, res, tmpDir, peerIdx,
                 peerSet, installList, tmpRes, tmpNodeModules, error>>

\* collectDefaultIfEmpty(set)
CollectDefaultIfEmpty ==
  /\ pc = "collectDefault"
  /\ set' = ReadAll(files, DefaultPaths(files, set), set)
  /\ reads' = ReadLogAll(files, DefaultPaths(files, set), reads)
  /\ IF Raises(files, DefaultPaths(files, set))
     THEN pc' = "crashed" /\ exitCode' = <<1>>
     ELSE pc' = "collectLocal" /\ exitCode' = exitCode
  /\ UNCHANGED <<runner, viewRes, cmd, files, nodeModules, pkgs, spawns, trace, res, tmpDir, peerIdx,
                 peerSet, installList, tmpRes, tmpNodeModules, error>>

\* collectFromLocalPlugins(set, set)
CollectFromLocalPlugins ==
  /\ pc = "collectLocal"
  /\ set' = collectFromLocalPlugins(set)
  /\ pc' = "filter"
  /\ UNCHANGED <<runner, viewRes, cmd, files, nodeModules, reads, pkgs, spawns, trace, res, tmpDir, peerIdx,
                 peerSet, installList, tmpRes, tmpNodeModules, error, exitCode>>

\* const pkgs = filterInstallable(Array.from(set)); if (pkgs.length > 0) ...
FilterStep ==
  /\ pc = "filter"
  /\ pkgs' = filterInstallable(set)
  /\ pc' = IF Len(filterInstallable(set)) > 0 THEN "install" ELSE "artifact"
  /\ UNCHANGED <<runner, viewRes, cmd, files, nodeModules, set, reads, spawns, trace, res, tmpDir, peerIdx,
                 peerSet, installList, tmpRes, tmpNodeModules, error, exitCode>>

\* --------------------------------------------------------- installPackages

\* older variant of the script: the predicate of unique.filter(...)
InstallableOld(s) ==
  IF ~IsString(s) THEN FALSE
  ELSE IF Includes(s, <<" ">>) THEN FALSE
  ELSE IF IsPathSpecifier(s) THEN FALSE
  ELSE IF PluginNameRegex(s) THEN TRUE
  ELSE IF ScopedPluginRegex(s) THEN TRUE
  ELSE FALSE

\* older variant of the script: filterInstallable(plugins)
filterInstallableOld(plugins) ==
  LET unique == Dedupe([i \in 1..Len(plugins) |-> TrimIfString(plugins[i])])
  IN SelectSeq(unique, InstallableOld)

\* older variant of the script:
\* /^(?:eslint-plugin-[A-Za-z0-9_-]+|@[A-Za-z0-9_-]+\/eslint-plugin(?:-[A-Za-z0-9_-]+)?)$/
PACKAGE_REGEX_OLD(s) ==
  \/ /\ StartsWith(s, ESLINT_PLUGIN_DASH)
     /\ Len(s) > Len(ESLINT_PLUGIN_DASH)
     /\ \A i \in (Len(ESLINT_PLUGIN_DASH) + 1)..Len(s) : s[i] \in AlnumUnderDash
  \/ /\ Len(s) >= 1 /\ s[1] = "@"
     /\ \E k \in 3..Len(s) :
          /\ s[k] = "/"
          /\ \A i \in 2..(k - 1) : s[i] \in AlnumUnderDash
          /\ LET rest == SubSeq(s, k + 1, Len(s))
             IN \/ rest = ESLINT_PLUGIN
                \/ /\ StartsWith(rest, ESLINT_PLUGIN_DASH)
                   /\ Len(rest) > Len(ESLINT_PLUGIN_DASH)
                   /\ \A i \in (Len(ESLINT_PLUGIN_DASH) + 1)..Len(rest) : rest[i] \in AlnumUnderDash

NotPackage(p) == ~PACKAGE_REGEX(p)
\* variant: the validation stops at the first entry
InvalidPkgsFirstOnly(list) == IF NotPackage(Head(list)) THEN <<Head(list)>> ELSE <<>>

\* pkgs.filter(p => !PACKAGE_REGEX.test(p))
InvalidPkgs(list) == SelectSeq(list, NotPackage)

\* the validation that opens installPackages
InstallValidate ==
  /\ pc = "install"
  /\ IF Len(pkgs) = 0
     THEN pc' = "returned" /\ error' = error
     ELSE IF Len(InvalidPkgs(pkgs)) > 0
     THEN pc' = "thrown" /\ error' = Err("invalid", <<>>, InvalidPkgs(pkgs), "")
     ELSE pc' = "primary" /\ error' = error
  /\ UNCHANGED <<runner, viewRes, cmd, files, nodeModules, set, reads, pkgs, spawns, trace, res, tmpDir,
                 peerIdx, peerSet, installList, tmpRes, tmpNodeModules, exitCode>>

\* ['install', '--ignore-scripts', ...pkgs]
PrimaryArgs(list) == << <<"i","n","s","t","a","l","l">>, <<"-","-","i","g","n","o","r","e","-","s","c","r","i","p","t","s">> >> \o list
PrimaryOptions == [stdio |-> "pipe", shell |-> FALSE, cwd |-> Cwd]

\* variant: the fallback install without --ignore-scripts
FallbackArgsWithScripts(list) == << <<"i","n","s","t","a","l","l">>, <<"-","-","n","o","-","a","u","d","i","t">>, <<"-","-","n","o","-","f","u","n","d">> >> \o list

\* ['install', '--ignore-scripts', '--no-audit', '--no-fund', ...installList]
FallbackArgs(list) ==
  << <<"i","n","s","t","a","l","l">>, <<"-","-","i","g","n","o","r","e","-","s","c","r","i","p","t","s">>, <<"-","-","n","o","-","a","u","d","i","t">>, <<"-","-","n","o","-","f","u","n","d">> >> \o list
FallbackOptions == [stdio |-> "inherit", shell |-> FALSE, cwd |-> TmpDirPath]

\* ['view', p, 'peerDependencies', '--json']
ViewArgs(p) == << <<"v","i","e","w">>, p, <<"p","e","e","r","D","e","p","e","n","d","e","n","c","i","e","s">>, <<"-","-","j","s","o","n">> >>
ViewOptions == [stdio |-> "ignore,pipe,inherit", shell |-> FALSE, cwd |-> Cwd]

\* res.stderr ? res.stderr.toString() : ''
BufferString(b) == IF b = JsNull THEN <<>> ELSE b

\* res.error.code === 'EUNSUPPORTEDPROTOCOL' || (res.error.message && /workspace:/.test(res.error.message))
WorkspaceError(e) ==
  \/ e.code = "EUNSUPPORTEDPROTOCOL"
  \/ e.message # <<>> /\ Includes(e.message, <<"w","o","r","k","s","p","a","c","e",":">>)

\* variant: the test for `Unsupported URL Type "workspace"` is missing
WorkspaceSignatureNoUrlType(stdoutStr, stderrStr) ==
  \/ Includes(stderrStr, <<"w","o","r","k","s","p","a","c","e",":">>)
  \/ Includes(stderrStr, <<"E","U","N","S","U","P","P","O","R","T","E","D","P","R","O","T","O","C","O","L">>)
  \/ Includes(stdoutStr, <<"w","o","r","k","s","p","a","c","e",":">>)

\* /Unsupported URL Type "workspace"/i matches where the lower-cased text holds
\* the lower-cased pattern
UnsupportedUrlType == ToLower(<<"U","n","s","u","p","p","o","r","t","e","d"," ","U","R","L"," ","T","y","p","e"," ","\"","w","o","r","k","s","p","a","c","e","\"">>)

\* the four output tests of the fallback condition
WorkspaceSignature(stdoutStr, stderrStr) ==
  \/ Includes(ToLower(stderrStr), UnsupportedUrlType)
  \/ Includes(stderrStr, <<"w","o","r","k","s","p","a","c","e",":">>)
  \/ Includes(stderrStr, <<"E","U","N","S","U","P","P","O","R","T","E","D","P","R","O","T","O","C","O","L">>)
  \/ Includes(stdoutStr, <<"w","o","r","k","s","p","a","c","e",":">>)

\* variant: the signature alone starts the fallback, whatever the status
ShouldFallbackOnSignature(r) ==
  WorkspaceSignature(BufferString(r.stdout), BufferString(r.stderr))

\* variant: any failed install falls back, whatever it printed
ShouldFallbackAnyFailure(r) == r.status # <<0>>

\* res.status !== 0 && (...)
ShouldFallback(r) ==
  /\ r.status # <<0>>
  /\ WorkspaceSignature(BufferString(r.stdout), BufferString(r.stderr))

\* What installPackages does with the primary result: "throwError" (throw
\* res.error), "fallback", "throwStatus" (npm install failed with code ...)
\* or "return".
PrimaryOutcome(r) ==
  IF r.error # NoErr /\ ~WorkspaceError(r.error) THEN "throwError"
  ELSE IF ShouldFallback(r) THEN "fallback"
  ELSE IF r.status # <<0>> THEN "throwStatus"
  ELSE "return"

\* npm writes the requested packages on success; a failed install is taken to
\* leave node_modules as it was
NpmInstallEffect(nm, list, r) ==
  IF r.status = <<0>>
  THEN [p \in NmPaths |-> IF p[1] \in Range(list) THEN "npm" ELSE nm[p]]
  ELSE nm

\* spawnSync('npm', args, {stdio: 'pipe', shell: false, cwd: installDir}) and
\* the tests of its result, up to the fallback's first step
PrimaryInstall ==
  /\ pc = "primary"
  /\ \E r \in PrimaryResults :
       /\ res' = r
       /\ spawns' = Append(spawns, Spawn("npm", PrimaryArgs(pkgs), PrimaryOptions))
       /\ trace' = Append(trace, "primary")
       /\ nodeModules' = NpmInstallEffect(nodeModules, pkgs, r)
       /\ LET outcome == PrimaryOutcome(r)
          IN /\ pc' = CASE outcome = "throwError" -> "thrown"
                        [] outcome = "fallback" -> "mkdtemp"
                        [] outcome = "throwStatus" -> "thrown"
                        [] OTHER -> "returned"
             /\ error' = CASE outcome = "throwError" -> Err("spawn", <<>>, <<>>, r.error.code)
                           [] outcome = "throwStatus" -> Err("npmFailed", r.status, <<>>, "")
                           [] OTHER -> error
  /\ UNCHANGED <<runner, viewRes, cmd, files, set, reads, pkgs, tmpDir, peerIdx, peerSet, installList,
                 tmpRes, tmpNodeModules, exitCode>>

\* const tmpDir = fs.mkdtempSync(...)
Mkdtemp ==
  /\ pc = "mkdtemp"
  /\ tmpDir' = "exists"
  /\ trace' = Append(trace, "mkdtemp")
  /\ pc' = "peers"
  /\ UNCHANGED <<runner, viewRes, cmd, files, nodeModules, set, reads, pkgs, spawns, res, peerIdx, peerSet,
                 installList, tmpRes, tmpNodeModules, error, exitCode>>

\* typeof k === 'string' && k.length > 0
PeerKeyKept(k) == IsString(k) /\ Len(k) > 0

\* variant: a failed query discards the peers found so far
CollectPeersAbandon(peers, r) ==
  IF r.status # <<0>> \/ r.out \in {"none", "empty", "garbage"} THEN <<>>
  ELSE IF r.out = "object" THEN SetAddAll(peers, SelectSeq(r.keys, PeerKeyKept))
  ELSE peers

\* one iteration of the loop of collectPeerDepsSync: peerSet afterwards
CollectPeers(peers, r) ==
  IF r.status # <<0>> \/ r.out = "none" THEN peers
  ELSE IF r.out \in {"empty", "null"} THEN peers
  ELSE IF r.out = "garbage" THEN peers
  ELSE IF r.out = "object" THEN SetAddAll(peers, SelectSeq(r.keys, PeerKeyKept))
  ELSE peers

\* Array.from(new Set([...pkgs, ...peerDeps]))
InstallList(list, peerDeps) == Dedupe(list \o peerDeps)

\* one iteration of collectPeerDepsSync; after the last one, installList
PeerQuery ==
  /\ pc = "peers"
  /\ peerIdx <= Len(pkgs)
  /\ \E r \in ViewResults :
       /\ viewRes' = r
       /\ peerSet' = CollectPeers(peerSet, r)
       /\ installList' = IF peerIdx = Len(pkgs)
                         THEN InstallList(pkgs, CollectPeers(peerSet, r))
                         ELSE installList
  /\ spawns' = Append(spawns, Spawn("npm", ViewArgs(pkgs[peerIdx]), ViewOptions))
  /\ trace' = Append(trace, "view")
  /\ peerIdx' = peerIdx + 1
  /\ pc' = IF peerIdx = Len(pkgs) THEN "tmpInstall" ELSE "peers"
  /\ UNCHANGED <<runner, cmd, files, nodeModules, set, reads, pkgs, res, tmpDir, tmpRes,
                 tmpNodeModules, error, exitCode>>

\* the node_modules an install of `list` in an empty directory can leave: none,
\* the packages of the list, or those and further packages they depend on
TreeOf(S) == [exists |-> TRUE, tree |-> [p \in NmPaths |-> IF p[1] \in S THEN "tmp" ELSE "absent"]]
TmpTrees(list) == {NoTree, TreeOf(Range(list)), TreeOf(Range(list) \cup {Eslint})}

\* variant: the exit status of the isolated install is not tested
FallbackOutcomeIgnoreStatus(r) ==
  IF r.error # NoErr THEN "throwError" ELSE "merge"

\* What installPackages does with the isolated install's result: "throwError"
\* (throw tmpRes.error), "throwStatus" (Fallback npm install failed with code
\* ...) or "merge".
FallbackOutcome(r) ==
  IF r.error # NoErr THEN "throwError"
  ELSE IF r.status # <<0>> THEN "throwStatus"
  ELSE "merge"

\* spawnSync('npm', [...], {stdio: 'inherit', shell: false, cwd: tmpDir}) and
\* the two tests of its result
FallbackInstall ==
  /\ pc = "tmpInstall"
  /\ \E r \in InheritResults :
       /\ tmpRes' = r
       /\ IF FallbackOutcome(r) = "throwError"
          THEN /\ pc' = "thrown"
               /\ error' = Err("spawn", <<>>, <<>>, r.error.code)
               /\ tmpNodeModules' = tmpNodeModules
          ELSE IF FallbackOutcome(r) = "throwStatus"
          THEN /\ pc' = "thrown"
               /\ error' = Err("fallbackFailed", r.status, <<>>, "")
               /\ tmpNodeModules' = tmpNodeModules
          ELSE /\ pc' = "merge"
               /\ error' = error
               /\ tmpNodeModules' \in TmpTrees(installList)
  /\ spawns' = Append(spawns, Spawn("npm", FallbackArgs(installList), FallbackOptions))
  /\ trace' = Append(trace, "tmpInstall")
  /\ viewRes' = NoView
  /\ UNCHANGED <<runner, cmd, files, nodeModules, set, reads, pkgs, res, tmpDir, peerIdx, peerSet,
                 installList, exitCode>>

\* What fs.cpSync(src, dest, {recursive: true, force}) leaves once it has gone
\* through the first n files of src: directories are merged, and a file that
\* exists in dest is overwritten only with force.
cpSync(src, dest, force, n) ==
  [p \in NmPaths |->
     IF NmIndex(p) > n \/ src[p] = "absent" THEN dest[p]
     ELSE IF dest[p] # "absent" /\ ~force THEN dest[p]
     ELSE src[p]]

\* variant: the copy is made with force: true
MergeCopyForce(src, dest, n) == cpSync(src, dest, TRUE, n)

\* fs.cpSync(tmpNodeModules, destNodeModules, { recursive: true, force: false })
MergeCopy(src, dest, n) == cpSync(src, dest, FALSE, n)

\* mkdirSync(destNodeModules) and the copy, which completes or throws part-way
Merge ==
  /\ pc = "merge"
  /\ IF tmpNodeModules.exists
     THEN /\ trace' = Append(trace, "merge")
          /\ \E n \in 0..Len(NmPathSeq), throws \in BOOLEAN :
               /\ throws \/ n = Len(NmPathSeq)
               /\ nodeModules' = MergeCopy(tmpNodeModules.tree, nodeModules, n)
               /\ pc' = IF throws THEN "thrown" ELSE "cleanup"
               /\ error' = IF throws THEN Err("fs", <<>>, <<>>, "EIO") ELSE error
     ELSE /\ trace' = Append(trace, "noNodeModules")
          /\ UNCHANGED <<nodeModules, error>>
          /\ pc' = "cleanup"
  /\ UNCHANGED <<runner, viewRes, cmd, files, set, reads, pkgs, spawns, res, tmpDir, peerIdx, peerSet,
                 installList, tmpRes, tmpNodeModules, exitCode>>

\* try { fs.rmSync(tmpDir, { recursive: true, force: true }) } catch (_err) {}
Cleanup ==
  /\ pc = "cleanup"
  /\ \E removed \in BOOLEAN : tmpDir' = IF removed THEN "removed" ELSE "exists"
  /\ trace' = Append(trace, "rm")
  /\ pc' = "returned"
  /\ UNCHANGED <<runner, viewRes, cmd, files, nodeModules, set, reads, pkgs, spawns, res, peerIdx, peerSet,
                 installList, tmpRes, tmpNodeModules, error, exitCode>>

\* ------------------------------------------------------- main: after install

\* installPackages returned: main goes on to the artifact copy
MainAfterInstall ==
  /\ pc = "returned"
  /\ pc' = "artifact"
  /\ UNCHANGED <<runner, viewRes, cmd, files, nodeModules, set, reads, pkgs, spawns, trace, res, tmpDir,
                 peerIdx, peerSet, installList, tmpRes, tmpNodeModules, error, exitCode>>

\* catch (e) { console.error(...); process.exit(1); }
MainCatch ==
  /\ pc = "thrown"
  /\ pc' = "exited"
  /\ exitCode' = <<1>>
  /\ UNCHANGED <<runner, viewRes, cmd, files, nodeModules, set, reads, pkgs, spawns, trace, res, tmpDir,
                 peerIdx, peerSet, installList, tmpRes, tmpNodeModules, error>>

OxlintDest == <<Oxlint, "package.json">>

\* copyBuiltOxlintIntoNodeModules(process.cwd()): node_modules afterwards, given
\* whether findBuiltOxlintSource found a build and whether the copy went through
copyBuiltOxlintIntoNodeModules(nm, found, copied) ==
  IF nm[OxlintDest] # "absent" THEN nm
  ELSE IF ~found THEN nm
  ELSE IF copied THEN [nm EXCEPT ![OxlintDest] = "built"]
  ELSE nm

\* the last block of main; the script then ends with status 0
CopyBuiltOxlint ==
  /\ pc = "artifact"
  /\ \E found \in BOOLEAN, copied \in BOOLEAN :
       nodeModules' = copyBuiltOxlintIntoNodeModules(nodeModules, found, copied)
  /\ trace' = Append(trace, "artifact")
  /\ pc' = "done"
  /\ exitCode' = <<0>>
  /\ UNCHANGED <<runner, viewRes, cmd, files, set, reads, pkgs, spawns, res, tmpDir, peerIdx, peerSet,
                 installList, tmpRes, tmpNodeModules, error>>

\* ---------------------------------------------------------- specifications

InstallNext ==
  \/ InstallValidate
  \/ PrimaryInstall
  \/ Mkdtemp
  \/ PeerQuery
  \/ FallbackInstall
  \/ Merge
  \/ Cleanup

Next ==
  \/ CollectFromCommand
  \/ CollectDefaultIfEmpty
  \/ CollectFromLocalPlugins
  \/ FilterStep
  \/ InstallNext
  \/ MainAfterInstall
  \/ MainCatch
  \/ CopyBuiltOxlint

\* a run of the script
Spec == Init /\ [][Next]_vars

\* package lists a caller may hand to installPackages
PkgUniverse == {EslintPluginFoo, OXLINT_PLUGINS, Lodash, <<"e","s","l","i","n","t","-","p","l","u","g","i","n","-","x",";","y">>}
RECURSIVE ListsUpTo(_)
ListsUpTo(n) ==
  IF n = 0 THEN {<<>>}
  ELSE ListsUpTo(n - 1) \cup {Append(l, x) : l \in {m \in ListsUpTo(n - 1) : Len(m) = n - 1}, x \in PkgUniverse}

InitInstall ==
  /\ cmd = <<>>
  /\ files = [p \in FilePaths |-> MissingFile]
  /\ nodeModules \in InitialNodeModules
  /\ pc = "install"
  /\ set = <<>>
  /\ reads = <<>>
  /\ pkgs \in ListsUpTo(MaxPkgs)
  /\ InstallVarsInit
  /\ RunnerIdle

\* installPackages called on its own, with any package list
SpecInstall == InitInstall /\ [][InstallNext]_vars

\* entries of a `plugins` array handed to filterInstallable
RawSpecifiers ==
  { EslintPluginFoo, <<" ","e","s","l","i","n","t","-","p","l","u","g","i","n","-","f","o","o"," ">>, <<"\t","e","s","l","i","n","t","-","p","l","u","g","i","n","-","f","o","o","\n">>, <<"e","s","l","i","n","t","-","p","l","u","g","i","n","-","F","o","o">>,
    ScopedPlugin, <<"@","s","/","e","s","l","i","n","t","-","p","l","u","g","i","n","-","x"," ">>, <<".","/","l","o","c","a","l","/","p",".","j","s">>, Lodash, JsNumber, OXLINT_PLUGINS,
    <<"e","s","l","i","n","t","-","p","l","u","g","i","n","-","e","s","_","5">> }
RECURSIVE RawListsUpTo(_)
RawListsUpTo(n) ==
  IF n = 0 THEN {<<>>}
  ELSE RawListsUpTo(n - 1) \cup {Append(l, x) : l \in {m \in RawListsUpTo(n - 1) : Len(m) = n - 1}, x \in RawSpecifiers}

InitFilter ==
  /\ cmd = <<>>
  /\ files = [p \in FilePaths |-> MissingFile]
  /\ nodeModules = NmEmpty
  /\ pc = "filter"
  /\ set \in RawListsUpTo(MaxLen)
  /\ reads = <<>>
  /\ pkgs = <<>>
  /\ InstallVarsInit
  /\ RunnerIdle

\* filterInstallable applied to its own output: the input becomes the earlier
\* output, pkgs the new output
Refilter ==
  /\ pc \in {"install", "artifact"}
  /\ set' = pkgs
  /\ pkgs' = filterInstallable(pkgs)
  /\ pc' = "refiltered"
  /\ UNCHANGED <<runner, viewRes, cmd, files, nodeModules, reads, spawns, trace, res, tmpDir, peerIdx,
                 peerSet, installList, tmpRes, tmpNodeModules, error, exitCode>>

\* older variant of the script: main filters the collection
FilterStepOld ==
  /\ pc = "filter"
  /\ pkgs' = filterInstallableOld(set)
  /\ pc' = IF Len(filterInstallableOld(set)) > 0 THEN "installOld" ELSE "returnedOld"
  /\ UNCHANGED <<runner, viewRes, cmd, files, nodeModules, set, reads, spawns, trace, res, tmpDir, peerIdx,
                 peerSet, installList, tmpRes, tmpNodeModules, error, exitCode>>

FilterNext ==
  \/ FilterStep
  \/ Refilter
  \/ FilterStepOld

\* filterInstallable called on its own, with any collection, then on its output
SpecFilter == InitFilter /\ [][FilterNext]_vars

\* entries of a jsPlugins array: strings (plain, padded, empty, blank), objects
\* with and without string fields, and the other JSON shapes
EntryUniverse ==
  { StrEntry(EslintPluginFoo), StrEntry(<<" ","e","s","l","i","n","t","-","p","l","u","g","i","n","-","f","o","o","\t">>), StrEntry(<<>>), StrEntry(<<" "," ">>),
    ObjEntry(<<" ","@","s","/","e","s","l","i","n","t","-","p","l","u","g","i","n","-","x"," ">>, Lodash), ObjEntry(JsUndefined, <<" ","l","o","d","a","s","h"," ">>),
    ObjEntry(JsNumber, EslintPluginFoo), ObjEntry(ScopedPlugin, JsNumber),
    ObjEntry(JsUndefined, JsUndefined), ObjEntry(JsNumber, JsNumber),
    OtherEntry("null", FALSE), OtherEntry("number", TRUE), OtherEntry("number", FALSE),
    OtherEntry("boolean", TRUE), OtherEntry("boolean", FALSE), OtherEntry("array", TRUE) }
RECURSIVE EntryListsUpTo(_)
EntryListsUpTo(n) ==
  IF n = 0 THEN {<<>>}
  ELSE EntryListsUpTo(n - 1) \cup {Append(l, x) : l \in {m \in EntryListsUpTo(n - 1) : Len(m) = n - 1}, x \in EntryUniverse}

\* readConfigAndCollect is about to be called on a file with some jsPlugins
InitParse ==
  /\ cmd = <<>>
  /\ \E arr \in EntryListsUpTo(MaxEntries) :
       files = [p \in FilePaths |-> IF p = CustomConfigPath THEN File("object", TRUE, arr)
                                    ELSE MissingFile]
  /\ nodeModules = NmEmpty
  /\ pc = "parse"
  /\ set = <<>>
  /\ reads = <<>>
  /\ pkgs = <<>>
  /\ InstallVarsInit
  /\ RunnerIdle

\* readConfigAndCollect(configPath, set)
ParseConfig ==
  /\ pc = "parse"
  /\ set' = readConfigAndCollect(files, CustomConfigPath, set)
  /\ reads' = ReadLog(files, CustomConfigPath, reads)
  /\ pc' = "parsed"
  /\ UNCHANGED <<runner, viewRes, cmd, files, nodeModules, pkgs, spawns, trace, res, tmpDir,
                 peerIdx, peerSet, installList, tmpRes, tmpNodeModules, error, exitCode>>

ParseNext == ParseConfig

\* readConfigAndCollect called on its own, on a file with any jsPlugins array
SpecParse == InitParse /\ [][ParseNext]_vars

\* ------------------------------------------------- bin/test.js: matrix loop

\* matrices of up to n entries; an entry is given by whether it has options
RECURSIVE MatricesUpTo(_)
MatricesUpTo(n) ==
  IF n = 0 THEN {<<>>}
  ELSE MatricesUpTo(n - 1)
       \cup {Append(m, [options |-> o]) : m \in {x \in MatricesUpTo(n - 1) : Len(x) = n - 1},
                                          o \in BOOLEAN}

\* a step of the runner on entry i: "write" (.oxfmtrc.json), "install" (the
\* installer script) or "command" (the entry's test command), and how it ended
Event(step, i, result) == [step |-> step, item |-> i, result |-> result]

\* the loop of bin/test.js is entered with a tool and a matrix
RunnerInit ==
  /\ cmd = <<>>
  /\ files = [p \in FilePaths |-> MissingFile]
  /\ nodeModules = NmEmpty
  /\ pc = "idle"
  /\ set = <<>>
  /\ reads = <<>>
  /\ pkgs = <<>>
  /\ InstallVarsInit
  /\ tool \in {"oxlint", "oxfmt"}
  /\ matrix \in MatricesUpTo(MaxItems)
  /\ item = 1
  /\ rpc = IF matrix = <<>> THEN "finished" ELSE "config"
  /\ log = <<>>

\* if (item.options) writeFileSync(configPath, ...): not in a try block
WriteConfig ==
  /\ rpc = "config"
  /\ IF matrix[item].options
     THEN \E ok \in BOOLEAN :
            /\ log' = Append(log, Event("write", item, IF ok THEN "ok" ELSE "threw"))
            /\ rpc' = IF ~ok THEN "aborted"
                      ELSE IF tool = "oxlint" THEN "install" ELSE "command"
     ELSE /\ log' = log
          /\ rpc' = IF tool = "oxlint" THEN "install" ELSE "command"
  /\ UNCHANGED <<mainVars, tool, matrix, item>>

\* variant: the installer is started outside the try block
InstallStepNextNoCatch(result) == IF result = "ok" THEN "command" ELSE "aborted"

\* try { execFileSync('node', [installer], ...) } catch (e) { console.error(...) }
InstallStepNext(result) == "command"

\* execFileSync throws when the installer exits non-zero or cannot be started
InstallPlugins ==
  /\ rpc = "install"
  /\ \E result \in {"ok", "nonzero", "nolaunch"} :
       /\ log' = Append(log, Event("install", item, result))
       /\ rpc' = InstallStepNext(result)
  /\ UNCHANGED <<mainVars, tool, matrix, item>>

\* variant: a failing test command is caught and the loop goes on
CommandStepNextCaught(ok, last) == IF last THEN "finished" ELSE "config"

\* execSync(command, { stdio: "inherit" }) is not in a try block: the loop ends
\* where it throws, and goes on with the next entry, if any, where it returns
CommandStepNext(ok, last) ==
  IF ~ok THEN "aborted" ELSE IF last THEN "finished" ELSE "config"

\* execSync(command, { stdio: "inherit" }): throws, uncaught, when the command
\* exits non-zero; otherwise the loop goes on with the next entry
RunCommand ==
  /\ rpc = "command"
  /\ \E ok \in BOOLEAN :
       /\ log' = Append(log, Event("command", item, IF ok THEN "ok" ELSE "threw"))
       /\ rpc' = CommandStepNext(ok, item = Len(matrix))
       /\ item' = IF CommandStepNext(ok, item = Len(matrix)) = "config" THEN item + 1 ELSE item
  /\ UNCHANGED <<mainVars, tool, matrix>>

RunnerNext ==
  \/ WriteConfig
  \/ InstallPlugins
  \/ RunCommand

\* a run of the matrix loop of bin/test.js
SpecRunner == RunnerInit /\ [][RunnerNext]_vars

\* ------------------------------------------------------------------ claims

IsInstallSpawn(sp) == sp.file = "npm" /\ Len(sp.args) >= 1 /\ sp.args[1] = <<"i","n","s","t","a","l","l">>
IsOption(a) == StartsWith(a, <<"-","-">>)
NotOption(a) == ~IsOption(a)
\* the package names of an npm install command line
PackageArgs(sp) == SelectSeq(Tail(sp.args), NotOption)
InstallSpawns == SelectSeq(spawns, IsInstallSpawn)
IsPrefix(a, b) == Len(a) <= Len(b) /\ SubSeq(b, 1, Len(a)) = a
Count(seq, x) == Cardinality({i \in 1..Len(seq) : seq[i] = x})
NotArtifact(ev) == ev # "artifact"
\* the steps installPackages took
InstallTrace == SelectSeq(trace, NotArtifact)
PrimaryDone == Len(InstallTrace) >= 1
InstallFinished == pc \in {"returned", "thrown", "artifact", "exited", "done"}
Collected == pc \notin {"main", "collectDefault", "collectLocal", "filter"}

\* C1: every package name on the command line of any npm install the script
\* starts (primary or fallback, discovered peers included) matches the
\* allowlist grammar.
C1_OnlyAllowlistedInstalled ==
  \A i \in 1..Len(InstallSpawns) :
    \A a \in Range(PackageArgs(InstallSpawns[i])) : PACKAGE_REGEX(a)

C2_Offending == {pkgs[i] : i \in {j \in 1..Len(pkgs) : ~PACKAGE_REGEX(pkgs[j])}}

\* C2: a non-empty list with an entry that fails PACKAGE_REGEX is rejected as
\* a whole: installPackages throws an error naming every offending entry,
\* starts no process and creates no temporary directory.
C2_BatchRejected ==
  (pc # "install" /\ C2_Offending # {}) =>
    /\ pc = "thrown"
    /\ error.kind = "invalid"
    /\ Range(error.names) = C2_Offending
    /\ spawns = <<>>
    /\ trace = <<>>
    /\ tmpDir = "none"

\* a batch with a valid and an invalid entry has been rejected
C2_Witness ==
  /\ pc = "thrown"
  /\ error.kind = "invalid"
  /\ \E i \in 1..Len(pkgs) : PACKAGE_REGEX(pkgs[i])
  /\ Cardinality(C2_Offending) >= 1

\* C3: a command with the standalone word "skip" gives an empty plan, starts
\* no installer and reads no configuration file, whatever files exist.
C3_SkipYieldsNothing ==
  SkipRegex(cmd) => pkgs = <<>> /\ reads = <<>> /\ InstallSpawns = <<>>

\* C4: after a primary install that failed to start with a workspace-protocol
\* error, installPackages is at the fallback's first step, not throwing.
C4_LaunchErrorFallsBack ==
  (Len(InstallTrace) = 1 /\ res.error # NoErr /\ res.status = <<>>
     /\ (res.error.code = "EUNSUPPORTEDPROTOCOL" \/ Includes(res.error.message, <<"w","o","r","k","s","p","a","c","e",":">>)))
    => pc = "mkdtemp"

C5_Pre ==
  /\ PrimaryDone
  /\ res.error = NoErr
  /\ res.status # <<0>>
  /\ ~WorkspaceSignature(BufferString(res.stdout), BufferString(res.stderr))

\* C5: a primary install that exits non-zero without a workspace-protocol
\* signature makes installPackages throw at once: no temporary directory, no
\* peer query, no second install, nothing copied into node_modules.
C5_FatalPrimaryFailure ==
  C5_Pre =>
    /\ pc \in {"thrown", "exited"}
    /\ error = Err("npmFailed", res.status, <<>>, "")
    /\ tmpDir = "none"
    /\ InstallTrace = <<"primary">>
    /\ Len(spawns) = 1
    /\ \A p \in NmPaths : nodeModules[p] # "tmp"

C5_Witness == C5_Pre /\ pc = "thrown" /\ res.stderr # <<>>

C6_Pre ==
  /\ PrimaryDone
  /\ res.error = NoErr
  /\ res.status # <<0>>
  /\ Includes(BufferString(res.stderr), <<"U","n","s","u","p","p","o","r","t","e","d"," ","U","R","L"," ","T","y","p","e"," ","\"","w","o","r","k","s","p","a","c","e","\"">>)

C6_Views == [i \in 1..Len(pkgs) |-> "view"]
C6_Order(mergeStep) ==
  <<"primary", "mkdtemp">> \o C6_Views \o <<"tmpInstall", mergeStep, "rm">>

\* C6 as stated: with that stderr, installPackages always runs the whole
\* fallback in order and returns without raising.
C6_Original ==
  (C6_Pre /\ InstallFinished) =>
    error = NoError /\ InstallTrace = C6_Order("merge")

\* C6 amended: with that stderr the fallback starts, and its steps come in the
\* order temporary directory, peer queries, isolated install of the requested
\* packages plus peers, merge, removal; installPackages returns without
\* raising when the isolated install exits 0 and the copy does not throw (the
\* merge is skipped when that install left no node_modules), and raises
\* otherwise.
C6_FallbackOrder ==
  C6_Pre =>
    /\ pc = "mkdtemp" \/ IsPrefix(<<"primary", "mkdtemp">>, InstallTrace)
    /\ \/ IsPrefix(InstallTrace, C6_Order("merge"))
       \/ IsPrefix(InstallTrace, C6_Order("noNodeModules"))
    /\ Len(InstallSpawns) = 2 =>
         /\ InstallSpawns[2].options.cwd = TmpDirPath
         /\ Range(PackageArgs(InstallSpawns[2])) = Range(pkgs) \cup Range(peerSet)
    /\ InstallFinished =>
         IF tmpRes.error = NoErr /\ tmpRes.status = <<0>> /\ error.kind # "fs"
         THEN /\ error = NoError
              /\ InstallTrace = C6_Order(IF tmpNodeModules.exists THEN "merge" ELSE "noNodeModules")
         ELSE error # NoError /\ pc \in {"thrown", "exited"}

C6_Witness ==
  /\ C6_Pre
  /\ pc = "returned"
  /\ InstallTrace = C6_Order("merge")
  /\ peerSet # <<>>
  /\ tmpDir = "removed"

\* C7: in the fallback, the temporary directory is removed (its removal is at
\* least attempted) before installPackages finishes, also when the merge copy
\* throws.
C7_TmpDirRemoved ==
  (InstallFinished /\ tmpDir # "none" /\ "merge" \in Range(trace)) =>
    tmpDir = "removed" \/ "rm" \in Range(trace)

\* C8: the merge step leaves every file that exists in the target node_modules
\* as it is, and a file it adds comes from the temporary node_modules.
C8_FirstWriterWins ==
  [][pc = "merge" =>
       \A p \in NmPaths :
         /\ nodeModules[p] # "absent" => nodeModules'[p] = nodeModules[p]
         /\ nodeModules[p] = "absent" => nodeModules'[p] \in {"absent", tmpNodeModules.tree[p]}]_vars

\* a merge met a file the repository already had and added another one
C8_Witness ==
  /\ pc = "cleanup"
  /\ "merge" \in Range(trace)
  /\ \E p \in NmPaths : nodeModules[p] = "repo" /\ tmpNodeModules.tree[p] = "tmp"
  /\ \E q \in NmPaths : nodeModules[q] = "tmp"

\* C9: every npm install the script starts has --ignore-scripts on its command
\* line and runs without a shell.
C9_ScriptsDisabledNoShell ==
  \A i \in 1..Len(InstallSpawns) :
    /\ <<"-","-","i","g","n","o","r","e","-","s","c","r","i","p","t","s">> \in Range(InstallSpawns[i].args)
    /\ InstallSpawns[i].options.shell = FALSE

C9_Witness ==
  /\ Len(InstallSpawns) = 2
  /\ InstallSpawns[1].options.cwd = Cwd
  /\ InstallSpawns[2].options.cwd = TmpDirPath

C10_Relative(s) == StartsWith(s, <<".","/">>) \/ StartsWith(s, <<".",".","/">>)
C10_Absolute(s) == StartsWith(s, <<"/">>)

\* C10 as stated: the plan holds no path, and a relative or absolute path in
\* the collected set puts @oxlint/plugins in the plan exactly once.
C10_Original ==
  Collected =>
    /\ \A i \in 1..Len(pkgs) : ~C10_Relative(pkgs[i]) /\ ~C10_Absolute(pkgs[i])
    /\ (\E s \in Range(set) : C10_Relative(s) \/ C10_Absolute(s)) =>
         Count(pkgs, OXLINT_PLUGINS) = 1

\* C10 amended: the plan holds no relative or absolute path, and a relative
\* path (./x, ../x) in the collected set puts @oxlint/plugins in the plan
\* exactly once.
C10_RelativeAddsAuxiliary ==
  Collected =>
    /\ \A i \in 1..Len(pkgs) : ~C10_Relative(pkgs[i]) /\ ~C10_Absolute(pkgs[i])
    /\ (\E s \in Range(set) : C10_Relative(s)) => Count(pkgs, OXLINT_PLUGINS) = 1

C10_Witness ==
  /\ pc = "install"
  /\ \E s \in Range(set) : StartsWith(s, <<".",".","/">>)
  /\ Count(pkgs, OXLINT_PLUGINS) = 1

C11_Matches(s) == PluginNameRegex(s) \/ ScopedPluginRegex(s)
C11_Filtered == pc \in {"install", "artifact"}

\* C11: every entry of the input whose trimmed form has the shape
\* eslint-plugin-<name> or @<scope>/eslint-plugin(-<name>)? is in the output of
\* filterInstallable exactly once, in its trimmed form with its case kept,
\* however often the input repeats it or a whitespace variant of it.
C11_AcceptedExactlyOnce ==
  C11_Filtered =>
    \A i \in 1..Len(set) :
      (IsString(set[i]) /\ C11_Matches(Trim(set[i]))) => Count(pkgs, Trim(set[i])) = 1

\* an input with a name, a whitespace variant of it and a case variant of it
C11_Witness ==
  /\ C11_Filtered
  /\ EslintPluginFoo \in Range(set)
  /\ \E i \in 1..Len(set) : set[i] # EslintPluginFoo /\ IsString(set[i]) /\ Trim(set[i]) = EslintPluginFoo
  /\ <<"e","s","l","i","n","t","-","p","l","u","g","i","n","-","F","o","o">> \in Range(set)
  /\ pkgs = <<EslintPluginFoo, <<"e","s","l","i","n","t","-","p","l","u","g","i","n","-","F","o","o">>>>

\* C12: filterInstallable applied to its own output returns that output, the
\* same elements in the same order.
C12_Idempotent == pc = "refiltered" => pkgs = set

\* an output of two names has been filtered again
C12_Witness == pc = "refiltered" /\ Len(set) >= 2 /\ pkgs = set

C13_NoPlugins(f) ==
  \/ f.kind \in {"missing", "invalid", "null", "scalar", "array"}
  \/ f.kind = "object" /\ ~f.hasPlugins

\* C13: readConfigAndCollect never raises to its caller, and for a missing
\* file, invalid JSON, a top level that is not an object, or an object without a
\* jsPlugins array it leaves the set as it was.
C13_NeverRaises ==
  /\ pc # "crashed"
  /\ \A p \in FilePaths :
       /\ ReadOutcome(files, p) # "throw"
       /\ C13_NoPlugins(files[p]) => readConfigAndCollect(files, p, set) = set

\* the -c file holds null, was read, and the default file then gave specifiers
C13_Witness ==
  /\ pc = "collectLocal"
  /\ reads = <<CustomConfigPath, DefaultConfigPath>>
  /\ files[CustomConfigPath].kind = "null"
  /\ set # <<>>

\* a registry query that failed: non-zero exit or no launch, no or empty
\* output, or output JSON.parse rejects
C14_Failed(r) == r.status # <<0>> \/ r.out \in {"none", "empty", "garbage"}

\* C14: a peerDependencies query, failed or not, is followed by the next
\* package's query or, after the last package, by the isolated install; a
\* failed query leaves the peers found so far as they are, a successful one adds
\* its keys; the isolated install is given the requested packages plus those
\* peers.
C14_QueryFailureNotFatal ==
  [][/\ pc = "peers" =>
          /\ pc' = IF peerIdx = Len(pkgs) THEN "tmpInstall" ELSE "peers"
          /\ error' = NoError
          /\ Len(spawns') = Len(spawns) + 1
          /\ spawns'[Len(spawns')].args[1] = <<"v","i","e","w">>
          /\ spawns'[Len(spawns')].args[2] = pkgs[peerIdx]
          /\ IsPrefix(peerSet, peerSet')
          /\ C14_Failed(viewRes') => peerSet' = peerSet
          /\ (~C14_Failed(viewRes') /\ viewRes'.out = "object") =>
               \A k \in Range(viewRes'.keys) : k # <<>> => k \in Range(peerSet')
          /\ pc' = "tmpInstall" =>
               /\ IsPrefix(pkgs, installList')
               /\ Range(installList') = Range(pkgs) \cup Range(peerSet')
     /\ pc = "tmpInstall" =>
          /\ Len(spawns') = Len(spawns) + 1
          /\ IsInstallSpawn(spawns'[Len(spawns')])
          /\ PackageArgs(spawns'[Len(spawns')]) = installList]_vars

\* the last of two queries failed after the first had found a peer, and the
\* isolated install is about to start with that peer
C14_Witness ==
  /\ pc = "tmpInstall"
  /\ Len(pkgs) = 2
  /\ C14_Failed(viewRes)
  /\ peerSet # <<>>
  /\ Len(installList) > Len(pkgs)

C15_Pre ==
  /\ "tmpInstall" \in Range(trace)
  /\ tmpRes.error # NoErr \/ tmpRes.status # <<0>>

\* C15: when the isolated install fails to launch or exits non-zero,
\* installPackages throws, no further install is started, nothing is merged
\* into node_modules, and the process does not end with status 0.
C15_FallbackFailureFatal ==
  C15_Pre =>
    /\ pc \in {"thrown", "exited"}
    /\ error.kind = IF tmpRes.error # NoErr THEN "spawn" ELSE "fallbackFailed"
    /\ error.kind = "fallbackFailed" => error.status = tmpRes.status
    /\ Len(InstallSpawns) = 2
    /\ "merge" \notin Range(trace) /\ "noNodeModules" \notin Range(trace)
    /\ \A p \in NmPaths : nodeModules[p] # "tmp"
    /\ "artifact" \notin Range(trace)
    /\ pc = "exited" => exitCode # <<>> /\ exitCode # <<0>>

\* the isolated install exited non-zero and the process has ended
C15_Witness ==
  /\ C15_Pre
  /\ tmpRes.error = NoErr
  /\ pc = "exited"
  /\ exitCode = <<1>>

\* the exit code the failing npm install reported, <<>> when it reported none
C16_SubprocessCode ==
  IF error.kind \in {"npmFailed", "fallbackFailed"} THEN error.status ELSE <<>>

\* C16: the process ends with status 0 when the installation succeeded or
\* there was nothing to install, and non-zero after a fatal failure: with the
\* failing subprocess's exit code when it reported one.
C16_ExitStatus ==
  /\ (pc = "done" /\ error = NoError) => exitCode = <<0>>
  /\ pc = "exited" =>
       /\ exitCode # <<>> /\ exitCode # <<0>>
       /\ C16_SubprocessCode # <<>> => exitCode = C16_SubprocessCode

\* C20: a run of main that has ended has attempted the copy of the built
\* oxlint, whether there was nothing to install, the installation succeeded or
\* it failed fatally.
C20_ArtifactAlwaysAttempted ==
  pc \in {"done", "exited"} => "artifact" \in Range(trace)

\* what the -c/--config flags of the command gave: the files read, the set
C18_FlagReads == ReadLogAll(files, CommandPaths(cmd), <<>>)
C18_FlagSet == ReadAll(files, CommandPaths(cmd), <<>>)
C18_ExistingDefaults ==
  {i \in 1..Len(DEFAULT_CONFIG_FILES) : existsSync(files, Cwd \o <<"/">> \o DEFAULT_CONFIG_FILES[i])}

\* C18: when collectDefaultIfEmpty has returned, the files read are those named
\* by the flags and then, exactly when the flags gave no specifier, the first
\* default name that exists; when the flags gave a specifier nothing more is
\* read.
C18_DefaultIffNoneFromFlags ==
  pc = "collectLocal" =>
    reads = C18_FlagReads \o
            (IF C18_FlagSet = <<>> /\ C18_ExistingDefaults # {}
             THEN <<Cwd \o <<"/">> \o DEFAULT_CONFIG_FILES[Min(C18_ExistingDefaults)]>>
             ELSE <<>>)

\* a flagged file without plugins was read, and then the default file
C18_Witness ==
  /\ pc = "collectLocal"
  /\ files[CustomConfigPath] = CfgNoPlugins
  /\ reads = <<CustomConfigPath, DefaultConfigPath>>
  /\ set # <<>>

C19_Command == <<"o","x","l","i","n","t"," ","-","-","c","o","n","f","i","g"," ","\"","m","y"," ","c","o","n","f","i","g",".","j","s","o","n","\"">>

\* C19: for the command oxlint --config "my config.json" the quoted path is
\* extracted with its space, resolved against the working directory and handed
\* to readConfigAndCollect: the file is read when it exists, and when it does not
\* the flags give nothing and nothing fails.
C19_QuotedPathWithSpace ==
  (cmd = C19_Command /\ pc # "main") =>
    /\ pc # "crashed"
    /\ CommandPaths(cmd) = <<SpacedConfigPath>>
    /\ existsSync(files, SpacedConfigPath) => SpacedConfigPath \in Range(reads)
    /\ ~existsSync(files, SpacedConfigPath) => C18_FlagSet = <<>>

C17_Ended == rpc \in {"finished", "aborted"}
C17_Failed(e) == e.step = "install" /\ e.result # "ok"
C17_Ran(step, i) == \E k \in 1..Len(log) : log[k].step = step /\ log[k].item = i

\* entries are taken one at a time in the order given, each with its steps in
\* the order write, install, command
C17_InOrder ==
  \A k \in 1..(Len(log) - 1) :
    \/ log[k + 1].item = log[k].item
       /\ \/ log[k].step = "write" /\ log[k + 1].step \in {"install", "command"}
          \/ log[k].step = "install" /\ log[k + 1].step = "command"
    \/ log[k + 1].item = log[k].item + 1 /\ log[k].step = "command"

\* an installer run, failed or not, is followed by the test command of its entry
C17_Caught ==
  \A k \in 1..Len(log) :
    log[k].step = "install" =>
      IF k = Len(log) THEN rpc = "command" /\ item = log[k].item
      ELSE log[k + 1].step = "command" /\ log[k + 1].item = log[k].item

\* C17 as stated: entries are processed in order, and after a failed
\* installer run the entry's test command is run and all subsequent entries are
\* processed.
C17_Original ==
  /\ C17_InOrder
  /\ C17_Caught
  /\ C17_Ended =>
       \A k \in 1..Len(log) :
         C17_Failed(log[k]) => \A j \in log[k].item..Len(matrix) : C17_Ran("command", j)

\* C17 amended: entries are processed in order, and after a failed installer
\* run the entry's test command is run; the runner stops early only where a
\* config write or a test command threw, and otherwise every entry's test
\* command has been run.
C17_InstallFailureCaught ==
  /\ C17_InOrder
  /\ C17_Caught
  /\ rpc = "aborted" =>
       /\ log # <<>>
       /\ log[Len(log)].step \in {"write", "command"}
       /\ log[Len(log)].result = "threw"
  /\ rpc = "finished" =>
       \A j \in 1..Len(matrix) :
         /\ C17_Ran("command", j)
         /\ tool = "oxlint" => C17_Ran("install", j)

\* the installer failed for the first entry, and the runner still went through
\* that entry's test command and the next entry
C17_Witness ==
  /\ rpc = "finished"
  /\ Len(matrix) >= 2
  /\ \E k \in 1..Len(log) : C17_Failed(log[k]) /\ log[k].item = 1
  /\ C17_Ran("command", 2)

\* what the claim says an entry adds: the trimmed string, else the trimmed
\* specifier of an object, else its trimmed name, else nothing
C21_Adds(it) ==
  IF it.t = "string" THEN <<Trim(it.v)>>
  ELSE IF it.t = "object" /\ IsString(it.specifier) THEN <<Trim(it.specifier)>>
  ELSE IF it.t = "object" /\ IsString(it.name) THEN <<Trim(it.name)>>
  ELSE <<>>

\* the same, with nothing added for the empty string
C21_AddsNonEmpty(it) ==
  IF it.t = "string" /\ it.v = <<>> THEN <<>> ELSE C21_Adds(it)

RECURSIVE C21_Flatten(_)
C21_Flatten(seqs) == IF seqs = <<>> THEN <<>> ELSE Head(seqs) \o C21_Flatten(Tail(seqs))

C21_Entries == files[CustomConfigPath].jsPlugins

\* C21 as stated: the set after parsing holds, in order and without
\* repetition, what each entry adds, a string entry always adding its trimmed
\* form.
C21_Original ==
  pc = "parsed" =>
    set = Dedupe(C21_Flatten([i \in 1..Len(C21_Entries) |-> C21_Adds(C21_Entries[i])]))

\* C21 amended: the same, except that an empty string entry adds nothing.
C21_EntryShapes ==
  pc = "parsed" =>
    set = Dedupe(C21_Flatten([i \in 1..Len(C21_Entries) |-> C21_AddsNonEmpty(C21_Entries[i])]))

\* an object with both fields and an object with only a name have been parsed
C21_Witness ==
  /\ pc = "parsed"
  /\ C21_Entries = <<ObjEntry(<<" ","@","s","/","e","s","l","i","n","t","-","p","l","u","g","i","n","-","x"," ">>, Lodash), ObjEntry(JsNumber, EslintPluginFoo)>>
  /\ set = <<ScopedPluginX, EslintPluginFoo>>

\* C22: every element of a list returned by filterInstallable matches
\* PACKAGE_REGEX, so the validation that opens installPackages rejects nothing
\* of it; the same for the older variant of the script with its own filter and
\* its own pattern.
C22_FilterOutputValid ==
  /\ pc \in {"install", "artifact", "refiltered"} =>
       (\A i \in 1..Len(pkgs) : PACKAGE_REGEX(pkgs[i])) /\ InvalidPkgs(pkgs) = <<>>
  /\ pc \in {"installOld", "returnedOld"} =>
       \A i \in 1..Len(pkgs) : PACKAGE_REGEX_OLD(pkgs[i])

\* the filter has kept a name with a digit and an underscore, and the auxiliary
\* package, out of a collection that also held a name of another shape
C22_Witness ==
  /\ pc = "install"
  /\ set = <<Lodash, <<"e","s","l","i","n","t","-","p","l","u","g","i","n","-","e","s","_","5">>, OXLINT_PLUGINS>>
  /\ pkgs = <<<<"e","s","l","i","n","t","-","p","l","u","g","i","n","-","e","s","_","5">>, OXLINT_PLUGINS>>

C23_FallbackSteps == {"mkdtemp", "view", "tmpInstall", "merge", "noNodeModules", "rm"}

\* a step of the fallback has been reached or has left a trace
C23_FallbackStarted ==
  \/ pc \in {"mkdtemp", "peers", "tmpInstall", "merge", "cleanup"}
  \/ Range(trace) \cap C23_FallbackSteps # {}
  \/ tmpDir # "none"
  \/ Len(spawns) > 1
  \/ tmpRes # NoResult
  \/ \E p \in NmPaths : nodeModules[p] = "tmp"

\* C23: whatever installPackages does starts with the primary install, which
\* runs exactly once; the temporary directory, the peer queries, the isolated
\* install and the merge occur only after a primary install that ended with a
\* status other than 0; after a primary install that exited 0 installPackages
\* has returned with no such step taken and nothing merged into node_modules.
C23_FallbackOnlyAfterFailedPrimary ==
  /\ trace # <<>> => trace[1] = "primary" /\ Count(trace, "primary") = 1
  /\ spawns # <<>> => spawns[1] = Spawn("npm", PrimaryArgs(pkgs), PrimaryOptions)
  /\ C23_FallbackStarted => PrimaryDone /\ res.status # <<0>>
  /\ (PrimaryDone /\ res.status = <<0>>) =>
       /\ pc = "returned"
       /\ trace = <<"primary">>
       /\ Len(spawns) = 1
       /\ \A p \in NmPaths : nodeModules[p] \in {"absent", "repo", "npm"}

\* the primary install exited 0 after printing a workspace: reference, and
\* installPackages returned with the packages written by that install alone
C23_Witness ==
  /\ pc = "returned"
  /\ res.status = <<0>>
  /\ res.stdout = <<"r","e","s","o","l","v","i","n","g"," ","w","o","r","k","s","p","a","c","e",":","^","1">>
  /\ trace = <<"primary">>
  /\ \E p \in NmPaths : nodeModules[p] = "npm"

\* a test command of entry i exited non-zero
C24_CommandFailed(e) == e.step = "command" /\ e.result = "threw"

\* C24: in oxlint mode the step before an entry's test command is that entry's
\* installer run, already ended; and a test command that exits non-zero is the
\* last step the runner ever takes: the run has ended there, and no later entry
\* has had its config written, its plugins installed or its command run.
C24_CommandFailureEndsRun ==
  /\ tool = "oxlint" =>
       \A k \in 1..Len(log) :
         log[k].step = "command" =>
           k > 1 /\ log[k - 1].step = "install" /\ log[k - 1].item = log[k].item
  /\ rpc = "command" /\ tool = "oxlint" =>
       log # <<>> /\ log[Len(log)] \in {Event("install", item, r) : r \in {"ok", "nonzero", "nolaunch"}}
  /\ \A k \in 1..Len(log) :
       C24_CommandFailed(log[k]) =>
         /\ k = Len(log)
         /\ rpc = "aborted"
         /\ item = log[k].item
         /\ \A j \in 1..Len(log) : log[j].item <= log[k].item

\* in oxlint mode the first of several entries had its plugins installed, then
\* its test command failed, and the run ended with no step on the second
C24_Witness ==
  /\ tool = "oxlint"
  /\ Len(matrix) >= 2
  /\ rpc = "aborted"
  /\ log = <<Event("install", 1, "ok"), Event("command", 1, "threw")>>
====
